---- MODULE Spec2Model ----
(***************************************************************************)
(* Model of the `der` crate's context-specific field codec                 *)
(* (src/der/src/asn1/context_specific.rs) with the OCTET STRING leaf type  *)
(* (src/der/src/asn1/octet_string.rs) as the inner value type.             *)
(*                                                                         *)
(* A byte buffer is a sequence of naturals in 0..255.  A reader is a pair  *)
(* (pos, lim): pos bytes have been consumed, and the reader may read up to *)
(* offset lim.  Every decoding function is an operator from (buffer, pos,  *)
(* lim) to a result record: Ok(value, new position) or Err(kind).          *)
(***************************************************************************)
EXTENDS Integers, Sequences, FiniteSets, TLC

(***************************************************************************)
(* Bounds of the model.                                                    *)
(***************************************************************************)
MaxTagNumber == 2

MaxFields == 2

MaxStack == 3

MaxContentLen == 128

\* The largest byte count the bounded Length type holds where OCTET STRING
\* values are constructed from arbitrary byte sequences: the crate's
\* Length::MAX scaled down, so that sequences on both sides of it are
\* enumerated.
Length_MAX == 3

TagNumbers == 0..MaxTagNumber

TagModes == {"Explicit", "Implicit"}

\* The inner value types T the wrapper is instantiated with.
InnerTypes == {"OctetStringRef", "SequenceRef"}

\* Content byte strings of the inner values that are encoded.
Contents == {<<>>, <<161, 0>>}

\* Content lengths on both sides of the one-octet length limit (0x7F).
ContentLens == {0, 1} \cup (125..MaxContentLen)

Zeros(n) == [i \in 1..n |-> 0]

(***************************************************************************)
(* Results.                                                                *)
(***************************************************************************)
NoInner == [T |-> "None", bytes |-> <<>>]

NoValue == [tag_number |-> 0, tag_mode |-> "None", value |-> NoInner]

Ok(v, p) == [ok |-> TRUE, some |-> TRUE, val |-> v, pos |-> p, err |-> "none"]

OkNone(p) == [ok |-> TRUE, some |-> FALSE, val |-> NoValue, pos |-> p, err |-> "none"]

Err(kind) == [ok |-> FALSE, some |-> FALSE, val |-> NoValue, pos |-> 0, err |-> kind]

(***************************************************************************)
(* Tag: class, constructed flag and number, one octet on the wire.         *)
(***************************************************************************)
Classes == <<"Universal", "Application", "ContextSpecific", "Private">>

ClassBits(class) == CHOOSE i \in 0..3 : Classes[i + 1] = class

Tag_decode(byte) ==
    LET class == Classes[(byte \div 64) + 1]
        constructed == ((byte \div 32) % 2) = 1
        number == byte % 32
    IN  IF number = 31 THEN Err("MalformedTag")
        ELSE IF class = "Universal" /\ number = 0 THEN Err("MalformedTag")
        ELSE IF class = "Universal" /\ (constructed # (number \in {16, 17}))
             THEN Err("MalformedTag")
        ELSE Ok([class |-> class, constructed |-> constructed, number |-> number], 0)

Tag_encode(tag) ==
    ClassBits(tag.class) * 64 + (IF tag.constructed THEN 32 ELSE 0) + tag.number

is_context_specific(tag) == tag.class = "ContextSpecific"

is_constructed(tag) == tag.constructed

Tag_OctetString == [class |-> "Universal", constructed |-> FALSE, number |-> 4]

Tag_Sequence == [class |-> "Universal", constructed |-> TRUE, number |-> 16]

Tag_ContextSpecific(number, constructed) ==
    [class |-> "ContextSpecific", constructed |-> constructed, number |-> number]

\* Tag::peek_optional: None at the end of the input, else the next tag,
\* read without advancing the reader.
Tag_peek_optional(b, pos, lim) ==
    IF pos >= lim THEN OkNone(pos)
    ELSE LET t == Tag_decode(b[pos + 1])
         IN  IF t.ok THEN Ok(t.val, pos) ELSE t

(***************************************************************************)
(* Length: short form (one octet <= 0x7F) or minimal long form.            *)
(***************************************************************************)
RECURSIVE BigEndian(_)
BigEndian(s) ==
    IF s = <<>> THEN 0
    ELSE BigEndian(SubSeq(s, 1, Len(s) - 1)) * 256 + s[Len(s)]

Length_decode(b, pos, lim) ==
    IF pos >= lim THEN Err("TruncatedInput")
    ELSE LET first == b[pos + 1]
             count == first - 128
         IN  IF first < 128 THEN Ok(first, pos + 1)
             ELSE IF count = 0 THEN Err("NonCanonicalLength")
             ELSE IF count > 4 THEN Err("LengthOverflow")
             ELSE IF pos + 1 + count > lim THEN Err("TruncatedInput")
             ELSE LET octets == SubSeq(b, pos + 2, pos + 1 + count)
                      n == BigEndian(octets)
                  IN  IF octets[1] = 0 \/ n < 128 THEN Err("NonCanonicalLength")
                      ELSE Ok(n, pos + 1 + count)

RECURSIVE Magnitude(_)
Magnitude(n) == IF n = 0 THEN <<>> ELSE Append(Magnitude(n \div 256), n % 256)

Length_encode(n) ==
    IF n < 128 THEN <<n>>
    ELSE <<128 + Len(Magnitude(n))>> \o Magnitude(n)

Length_encoded_len(n) ==
    IF n < 128 THEN 1
    ELSE IF n < 256 THEN 2
    ELSE IF n < 65536 THEN 3
    ELSE IF n < 16777216 THEN 4
    ELSE 5

(***************************************************************************)
(* Header: the (Tag, Length) pair that prefixes every unit.                *)
(***************************************************************************)
Header_decode(b, pos, lim) ==
    IF pos >= lim THEN Err("TruncatedInput")
    ELSE LET t == Tag_decode(b[pos + 1])
         IN  IF ~t.ok THEN t
             ELSE LET l == Length_decode(b, pos + 1, lim)
                  IN  IF ~l.ok THEN l
                      ELSE Ok([tag |-> t.val, length |-> l.val], l.pos)

Header_encode(tag, length) == <<Tag_encode(tag)>> \o Length_encode(length)

Header_encoded_len(length) == 1 + Length_encoded_len(length)

(***************************************************************************)
(* Reader: forward-only cursor, and the nested cursor bounded by a Length. *)
(***************************************************************************)
\* Reader::read_slice: the next `length` bytes, verbatim.
Reader_read_slice(b, pos, lim, length) ==
    IF pos + length > lim THEN Err("TruncatedInput")
    ELSE Ok(SubSeq(b, pos + 1, pos + length), pos + length)

\* Opening the nested cursor of read_nested: its limit, or an error when
\* the outer reader holds fewer than `length` bytes.
NestedReader_new(pos, lim, length) ==
    IF pos + length > lim THEN Err("TruncatedInput")
    ELSE Ok(NoValue, pos + length)

\* Closing the nested cursor: the callback's result r, or an error when
\* the callback left bytes unread before the nested limit.
NestedReader_finish(r, nestedLim) ==
    IF ~r.ok THEN r
    ELSE IF r.pos # nestedLim THEN Err("TrailingData")
    ELSE r

(***************************************************************************)
(* The inner value types: OCTET STRING (primitive) and SEQUENCE body       *)
(* (constructed), both holding their content bytes verbatim.               *)
(***************************************************************************)
T_TAG(T) == IF T = "SequenceRef" THEN Tag_Sequence ELSE Tag_OctetString

OctetStringRef_decode_value(b, pos, lim, header) ==
    LET inner == Reader_read_slice(b, pos, lim, header.length)
    IN  IF ~inner.ok THEN inner
        ELSE Ok([T |-> "OctetStringRef", bytes |-> inner.val], inner.pos)

SequenceRef_decode_value(b, pos, lim, header) ==
    LET body == Reader_read_slice(b, pos, lim, header.length)
    IN  IF ~body.ok THEN body
        ELSE Ok([T |-> "SequenceRef", bytes |-> body.val], body.pos)

T_decode_value(T, b, pos, lim, header) ==
    IF T = "SequenceRef" THEN SequenceRef_decode_value(b, pos, lim, header)
    ELSE OctetStringRef_decode_value(b, pos, lim, header)

\* Decode for a fixed-tag type: the header, the tag check, and the
\* value-level decode inside the cursor bounded by the header's length.
T_decode(T, b, pos, lim) ==
    LET h == Header_decode(b, pos, lim)
    IN  IF ~h.ok THEN h
        ELSE IF h.val.tag # T_TAG(T) THEN Err("UnexpectedTag")
        ELSE LET n == NestedReader_new(h.pos, lim, h.val.length)
             IN  IF ~n.ok THEN n
                 ELSE NestedReader_finish(
                          T_decode_value(T, b, h.pos, n.pos, h.val), n.pos)

\* Decode::from_der: decode one unit from a whole byte slice; bytes after
\* the unit are an error.
T_from_der(T, bytes) ==
    LET r == T_decode(T, bytes, 0, Len(bytes))
    IN  IF ~r.ok THEN r
        ELSE IF r.pos # Len(bytes) THEN Err("TrailingData")
        ELSE r

T_tag(v) == T_TAG(v.T)

T_value_len(v) == Len(v.bytes)

T_encode_value(v) == v.bytes

T_encoded_len(v) == Header_encoded_len(T_value_len(v)) + T_value_len(v)

T_encode(v) == Header_encode(T_tag(v), T_value_len(v)) \o T_encode_value(v)

\* OrdIsValueOrd: the value-level comparison is Ord on the content bytes.
RECURSIVE BytesCmp(_, _)
BytesCmp(x, y) ==
    IF x = <<>> /\ y = <<>> THEN "Equal"
    ELSE IF x = <<>> THEN "Less"
    ELSE IF y = <<>> THEN "Greater"
    ELSE IF x[1] < y[1] THEN "Less"
    ELSE IF x[1] > y[1] THEN "Greater"
    ELSE BytesCmp(Tail(x), Tail(y))

T_value_cmp(x, y) == BytesCmp(x.bytes, y.bytes)

(***************************************************************************)
(* AnyRef: an untyped unit, its tag and its content bytes.                 *)
(***************************************************************************)
AnyRef_decode(b, pos, lim) ==
    LET h == Header_decode(b, pos, lim)
    IN  IF ~h.ok THEN h
        ELSE LET v == Reader_read_slice(b, h.pos, lim, h.val.length)
             IN  IF ~v.ok THEN v
                 ELSE Ok([tag |-> h.val.tag, value |-> v.val], v.pos)

(***************************************************************************)
(* ContextSpecific<T>: [tag_number, tag_mode, value].                      *)
(***************************************************************************)
TagMode_default == "Explicit"

\* Variants of the EXPLICIT decode: "no_finish" does not close the nested
\* cursor (bytes left inside the outer Length go unnoticed), "any_flag"
\* accepts a primitive context-specific header too.
ContextSpecific_decode_variant(variant, T, b, pos, lim) ==
    LET h == Header_decode(b, pos, lim)
    IN  IF ~h.ok THEN h
        ELSE IF /\ is_context_specific(h.val.tag)
                /\ (h.val.tag.constructed \/ variant = "any_flag")
        THEN LET n == NestedReader_new(h.pos, lim, h.val.length)
                 v == IF ~n.ok THEN n
                      ELSE IF variant = "no_finish" THEN T_decode(T, b, h.pos, n.pos)
                      ELSE NestedReader_finish(T_decode(T, b, h.pos, n.pos), n.pos)
             IN  IF ~v.ok THEN v
                 ELSE Ok([tag_number |-> h.val.tag.number,
                          tag_mode |-> TagMode_default,
                          value |-> v.val], n.pos)
        ELSE Err("UnexpectedTag")

ContextSpecific_decode_no_finish(T, b, pos, lim) ==
    ContextSpecific_decode_variant("no_finish", T, b, pos, lim)

ContextSpecific_decode_any_flag(T, b, pos, lim) ==
    ContextSpecific_decode_variant("any_flag", T, b, pos, lim)

\* impl Decode for ContextSpecific<T>: the EXPLICIT decode.
ContextSpecific_decode(T, b, pos, lim) ==
    LET h == Header_decode(b, pos, lim)
    IN  IF ~h.ok THEN h
        ELSE IF is_context_specific(h.val.tag) /\ h.val.tag.constructed
        THEN LET n == NestedReader_new(h.pos, lim, h.val.length)
                 v == IF ~n.ok THEN n
                      ELSE NestedReader_finish(T_decode(T, b, h.pos, n.pos), n.pos)
             IN  IF ~v.ok THEN v
                 ELSE Ok([tag_number |-> h.val.tag.number,
                          tag_mode |-> TagMode_default,
                          value |-> v.val], v.pos)
        ELSE Err("UnexpectedTag")

\* The IMPLICIT decode without the comparison of the constructed flags.
decode_implicit_field_no_flag_check(T, b, pos, lim, tag_number) ==
    LET h == Header_decode(b, pos, lim)
    IN  IF ~h.ok THEN h
        ELSE LET n == NestedReader_new(h.pos, lim, h.val.length)
                 v == IF ~n.ok THEN n
                      ELSE NestedReader_finish(
                               T_decode_value(T, b, h.pos, n.pos, h.val), n.pos)
             IN  IF ~v.ok THEN v
                 ELSE Ok([tag_number |-> tag_number,
                          tag_mode |-> "Implicit",
                          value |-> v.val], v.pos)

\* The callback decode_implicit hands to decode_with.
decode_implicit_field(T, b, pos, lim, tag_number) ==
    LET h == Header_decode(b, pos, lim)
    IN  IF ~h.ok THEN h
        ELSE LET n == NestedReader_new(h.pos, lim, h.val.length)
                 v == IF ~n.ok THEN n
                      ELSE NestedReader_finish(
                               T_decode_value(T, b, h.pos, n.pos, h.val), n.pos)
             IN  IF ~v.ok THEN v
                 ELSE IF is_constructed(h.val.tag) # is_constructed(T_tag(v.val))
                 THEN Err("Noncanonical")
                 ELSE Ok([tag_number |-> tag_number,
                          tag_mode |-> "Implicit",
                          value |-> v.val], v.pos)

\* The callback f of decode_with, by the mode of the probe.
decode_field(mode, T, b, pos, lim, tag_number) ==
    IF mode = "Explicit" THEN ContextSpecific_decode(T, b, pos, lim)
    ELSE decode_implicit_field(T, b, pos, lim, tag_number)

RECURSIVE decode_with_variant(_, _, _, _, _, _, _)
\* Variants of decode_with with one arm of the loop changed: "no_skip"
\* stops at a lower-numbered field instead of discarding it,
\* "consume_greater" discards a higher-numbered field before reporting
\* None, "reject_other" reports a tag that is not context-specific as an
\* error.
decode_with_variant(variant, mode, T, b, pos, lim, tag_number) ==
    LET peek == Tag_peek_optional(b, pos, lim)
        any == AnyRef_decode(b, pos, lim)
    IN  IF ~peek.ok THEN peek
        ELSE IF ~peek.some THEN OkNone(pos)
        ELSE IF ~is_context_specific(peek.val)
        THEN IF variant = "reject_other" THEN Err("UnexpectedTag") ELSE OkNone(pos)
        ELSE IF peek.val.number > tag_number
        THEN IF variant = "consume_greater" /\ any.ok THEN OkNone(any.pos)
             ELSE OkNone(pos)
        ELSE IF peek.val.number = tag_number
        THEN decode_field(mode, T, b, pos, lim, tag_number)
        ELSE IF variant = "no_skip" THEN OkNone(pos)
        ELSE IF ~any.ok THEN any
        ELSE decode_with_variant(variant, mode, T, b, any.pos, lim, tag_number)

decode_with_no_skip(mode, T, b, pos, lim, tag_number) ==
    decode_with_variant("no_skip", mode, T, b, pos, lim, tag_number)

decode_with_consume_greater(mode, T, b, pos, lim, tag_number) ==
    decode_with_variant("consume_greater", mode, T, b, pos, lim, tag_number)

decode_with_reject_other(mode, T, b, pos, lim, tag_number) ==
    decode_with_variant("reject_other", mode, T, b, pos, lim, tag_number)

RECURSIVE decode_with(_, _, _, _, _, _)
decode_with(mode, T, b, pos, lim, tag_number) ==
    LET peek == Tag_peek_optional(b, pos, lim)
    IN  IF ~peek.ok THEN peek
        ELSE IF ~peek.some THEN OkNone(pos)
        ELSE IF ~is_context_specific(peek.val) \/ peek.val.number > tag_number
        THEN OkNone(pos)
        ELSE IF peek.val.number = tag_number
        THEN decode_field(mode, T, b, pos, lim, tag_number)
        ELSE LET any == AnyRef_decode(b, pos, lim)
             IN  IF ~any.ok THEN any
                 ELSE decode_with(mode, T, b, any.pos, lim, tag_number)

decode_explicit(T, b, pos, lim, tag_number) ==
    decode_with("Explicit", T, b, pos, lim, tag_number)

decode_implicit(T, b, pos, lim, tag_number) ==
    decode_with("Implicit", T, b, pos, lim, tag_number)

(***************************************************************************)
(* The loop of decode_with, one iteration at a time.                       *)
(***************************************************************************)
\* The loop is left with the result res; `entered` tells whether the loop
\* body was entered (peek_optional returned a tag).
Exit(entered, res) == [exit |-> TRUE, entered |-> entered, res |-> res, pos |-> res.pos]

\* The loop body ran through its last arm and the reader is at p.
Continue(p) == [exit |-> FALSE, entered |-> TRUE, res |-> OkNone(p), pos |-> p]

\* Variants of one iteration: "hide_errors" reports a failed peek and a
\* failed skip as an absent field, "no_advance" leaves the reader where it
\* was after looking at a lower-numbered field.
decode_with_iteration_variant(variant, mode, T, b, pos, lim, tag_number) ==
    LET peek == Tag_peek_optional(b, pos, lim)
        any == AnyRef_decode(b, pos, lim)
    IN  IF ~peek.ok
        THEN IF variant = "hide_errors" THEN Exit(FALSE, OkNone(pos))
             ELSE Exit(FALSE, peek)
        ELSE IF ~peek.some THEN Exit(FALSE, OkNone(pos))
        ELSE IF ~is_context_specific(peek.val) \/ peek.val.number > tag_number
        THEN Exit(TRUE, OkNone(pos))
        ELSE IF peek.val.number = tag_number
        THEN Exit(TRUE, decode_field(mode, T, b, pos, lim, tag_number))
        ELSE IF ~any.ok
        THEN IF variant = "hide_errors" THEN Exit(TRUE, OkNone(pos))
             ELSE Exit(TRUE, any)
        ELSE IF variant = "no_advance" THEN Continue(pos)
        ELSE Continue(any.pos)

decode_with_iteration_hide_errors(mode, T, b, pos, lim, tag_number) ==
    decode_with_iteration_variant("hide_errors", mode, T, b, pos, lim, tag_number)

decode_with_iteration_no_advance(mode, T, b, pos, lim, tag_number) ==
    decode_with_iteration_variant("no_advance", mode, T, b, pos, lim, tag_number)

\* One pass through `while let Some(tag) = Tag::peek_optional(reader)?`
\* and the loop body, with the reader at pos.
decode_with_iteration(mode, T, b, pos, lim, tag_number) ==
    LET peek == Tag_peek_optional(b, pos, lim)
        any == AnyRef_decode(b, pos, lim)
    IN  IF ~peek.ok THEN Exit(FALSE, peek)
        ELSE IF ~peek.some THEN Exit(FALSE, OkNone(pos))
        ELSE IF ~is_context_specific(peek.val) \/ peek.val.number > tag_number
        THEN Exit(TRUE, OkNone(pos))
        ELSE IF peek.val.number = tag_number
        THEN Exit(TRUE, decode_field(mode, T, b, pos, lim, tag_number))
        ELSE IF ~any.ok THEN Exit(TRUE, any)
        ELSE Continue(any.pos)

\* value_len with the Explicit arm leaving out the inner header.
ContextSpecific_value_len_content_only(cs) == T_value_len(cs.value)

\* impl EncodeValue for ContextSpecific<T>.
ContextSpecific_value_len(cs) ==
    IF cs.tag_mode = "Explicit" THEN T_encoded_len(cs.value)
    ELSE T_value_len(cs.value)

ContextSpecific_encode_value(cs) ==
    IF cs.tag_mode = "Explicit" THEN T_encode(cs.value)
    ELSE T_encode_value(cs.value)

\* tag() reporting every field as constructed, whatever its mode.
ContextSpecific_tag_always_constructed(cs) ==
    Tag_ContextSpecific(cs.tag_number, TRUE)

\* impl Tagged for ContextSpecific<T>.
ContextSpecific_tag(cs) ==
    LET constructed == IF cs.tag_mode = "Explicit" THEN TRUE
                       ELSE is_constructed(T_tag(cs.value))
    IN  Tag_ContextSpecific(cs.tag_number, constructed)

\* Encode for ContextSpecific<T>: the header from (tag, value_len), then
\* the value.
ContextSpecific_encoded_len(cs) ==
    Header_encoded_len(ContextSpecific_value_len(cs)) + ContextSpecific_value_len(cs)

ContextSpecific_encode(cs) ==
    Header_encode(ContextSpecific_tag(cs), ContextSpecific_value_len(cs))
        \o ContextSpecific_encode_value(cs)

\* impl TryFrom<AnyRef> for ContextSpecific<T>.
ContextSpecific_try_from(T, any) ==
    IF is_context_specific(any.tag) /\ any.tag.constructed
    THEN LET v == T_from_der(T, any.value)
         IN  IF ~v.ok THEN v
             ELSE Ok([tag_number |-> any.tag.number,
                      tag_mode |-> TagMode_default,
                      value |-> v.val], 0)
    ELSE Err("UnexpectedTag")

(***************************************************************************)
(* Canonical ordering.                                                     *)
(***************************************************************************)
\* DerOrd: the comparison of the two full canonical encodings, byte for byte.
der_cmp(x, y) == BytesCmp(ContextSpecific_encode(x), ContextSpecific_encode(y))

\* impl ValueOrd for ContextSpecific<T>.  The Implicit arm calls value_cmp
\* on the wrapper itself; `stack` is the number of frames the call stack
\* still holds, and a call that exhausts it never returns.
RECURSIVE ContextSpecific_value_cmp(_, _, _)
ContextSpecific_value_cmp(x, y, stack) ==
    IF stack = 0 THEN "NoReturn"
    ELSE IF x.tag_mode = "Explicit" THEN der_cmp(x, y)
    ELSE ContextSpecific_value_cmp(x, y, stack - 1)

(***************************************************************************)
(* OCTET STRING, borrowed (OctetStringRef) and owned (OctetString) form,   *)
(* as values constructed from byte sequences of any length.                *)
(***************************************************************************)
Valid(v) == [ok |-> TRUE, val |-> v, err |-> "none"]

Invalid(kind) == [ok |-> FALSE, val |-> <<>>, err |-> kind]

\* Result::expect: the value, or a panic.
expect(r) == IF r.ok THEN r ELSE Invalid("panic")

\* Length::try_from(usize).
Length_try_from(n) == IF n <= Length_MAX THEN Valid(n) ELSE Invalid("Overflow")

\* BytesRef::new: the slice with its length as a Length.
BytesRef_new(slice) ==
    LET length == Length_try_from(Len(slice))
    IN  IF ~length.ok THEN length
        ELSE Valid([length |-> length.val, inner |-> slice])

BytesRef_as_slice(bytes) == bytes.inner

\* Reader::read_vec: the next `length` bytes, copied.
Reader_read_vec(b, pos, lim, length) == Reader_read_slice(b, pos, lim, length)

OctetStringRef_new(slice) ==
    LET inner == BytesRef_new(slice)
    IN  IF inner.ok THEN Valid([inner |-> inner.val]) ELSE Invalid("Length")

OctetStringRef_as_bytes(octet_string) == BytesRef_as_slice(octet_string.inner)

\* The constructor without the check through OctetStringRef::new.
OctetString_new_unchecked(bytes) == Valid([inner |-> bytes])

OctetString_new(bytes) ==
    LET inner == bytes
        checked == OctetStringRef_new(inner)
    IN  IF ~checked.ok THEN checked
        ELSE Valid([inner |-> inner])

OctetString_as_bytes(octet_string) == octet_string.inner

OctetString_value_len(octet_string) == Length_try_from(Len(octet_string.inner))

OctetString_len(octet_string) == expect(OctetString_value_len(octet_string))

\* DecodeValue for OctetString: header.length bytes of the reader, copied.
OctetString_decode_value(b, pos, lim, header) ==
    LET vec == Reader_read_vec(b, pos, lim, header.length)
    IN  IF ~vec.ok THEN Invalid(vec.err)
        ELSE OctetString_new(vec.val)

\* From<&OctetString> for OctetStringRef.
OctetStringRef_from(octet_string) == expect(OctetStringRef_new(octet_string.inner))

\* RefToOwned for OctetStringRef.
ref_to_owned(octet_string_ref) ==
    [inner |-> BytesRef_as_slice(octet_string_ref.inner)]

\* OwnedToRef for OctetString.
owned_to_ref(octet_string) == OctetStringRef_from(octet_string)

(***************************************************************************)
(* The state machine: a writer encodes fields into a buffer, a reader is   *)
(* opened over the buffer, and the decoding operations are applied to it.  *)
(***************************************************************************)
VARIABLES
    buf,        \* the byte buffer
    written,    \* the ContextSpecific values encoded into buf, in order
    raw,        \* TRUE once buf is no longer the encoding of `written`
    phase,      \* "write", "read" (a reader is open over buf) or "cmp"
    pos,        \* the reader's position: the number of bytes consumed
    last,       \* the last operation on the reader and its result
    prev,       \* the probe before it: its target, start and outcome
    cmp,        \* the last value_cmp call and its outcome
    owned,      \* the OctetString held, if any: <<>> or <<value>>
    ownedBy,    \* the operation that constructed `owned`
    borrowed,   \* the OctetStringRef held, if any: <<>> or <<value>>
    olast,      \* the last OCTET STRING operation and its outcome
    loop        \* the skip loop of decode_with, run one iteration at a time

codecVars == <<buf, written, raw, phase, pos, last, prev, cmp>>

octetVars == <<owned, ownedBy, borrowed, olast>>

vars == <<buf, written, raw, phase, pos, last, prev, cmp,
          owned, ownedBy, borrowed, olast, loop>>

InnerValues == {[T |-> T, bytes |-> c] : T \in InnerTypes, c \in Contents}

Values == [tag_number : TagNumbers, tag_mode : TagModes, value : InnerValues]

\* Bytes a buffer is tampered with: lengths 0, 1 and 3, OCTET STRING,
\* SEQUENCE, [1] primitive, [0] and [1] constructed.
TamperBytes == {0, 1, 3, 4, 48, 129, 160, 161}

NoOp == [op |-> "none", T |-> "None", target |-> 0, pos0 |-> 0, res |-> OkNone(0)]

NoPrev == [target |-> 0, pos0 |-> 0, absent |-> FALSE]

NoCmp == [a |-> NoValue, b |-> NoValue, res |-> "none"]

Probes == {"decode_explicit", "decode_implicit"}

NoOctetOp == [op |-> "none", input |-> <<>>, length |-> 0,
              ok |-> TRUE, err |-> "none", len |-> 0]

\* The loop of a probe: where the reader was when the probe began (start),
\* where it is (at), where the iterations that skipped a field began
\* (trail), how often the loop body was entered (iters), and the result.
NoLoop == [state |-> "idle", tag_mode |-> "None", T |-> "None", tag_number |-> 0,
           start |-> 0, at |-> 0, trail |-> <<>>, iters |-> 0, res |-> OkNone(0)]

Init ==
    /\ buf = <<>>
    /\ written = <<>>
    /\ raw = FALSE
    /\ phase = "write"
    /\ pos = 0
    /\ last = NoOp
    /\ prev = NoPrev
    /\ cmp = NoCmp
    /\ owned = <<>>
    /\ ownedBy = "none"
    /\ borrowed = <<>>
    /\ olast = NoOctetOp
    /\ loop = NoLoop

\* Encode::encode of one field to the writer.  Fields are written in
\* ascending tag-number order, as an extensible schema lays them out.
Encode(cs) ==
    /\ phase = "write"
    /\ ~raw
    /\ Len(written) < MaxFields
    /\ written # <<>> => written[Len(written)].tag_number < cs.tag_number
    /\ buf' = buf \o ContextSpecific_encode(cs)
    /\ written' = Append(written, cs)
    /\ UNCHANGED <<raw, phase, pos, last, prev, cmp, octetVars, loop>>

\* A buffer that was not produced by the encoder: one byte of an encoded
\* field replaced.
Tamper(i, byte) ==
    /\ phase = "write"
    /\ ~raw
    /\ Len(written) = 1
    /\ i \in 1..Len(buf)
    /\ buf[i] # byte
    /\ buf' = [buf EXCEPT ![i] = byte]
    /\ raw' = TRUE
    /\ UNCHANGED <<written, phase, pos, last, prev, cmp, octetVars, loop>>

\* A buffer that was cut short: the last byte of an encoded field missing.
Truncate ==
    /\ phase = "write"
    /\ ~raw
    /\ Len(written) = 1
    /\ buf' = SubSeq(buf, 1, Len(buf) - 1)
    /\ raw' = TRUE
    /\ UNCHANGED <<written, phase, pos, last, prev, cmp, octetVars, loop>>

\* SliceReader::new over the buffer.
NewReader ==
    /\ phase = "write"
    /\ phase' = "read"
    /\ pos' = 0
    /\ UNCHANGED <<buf, written, raw, last, prev, cmp, octetVars, loop>>

\* What a probe leaves for the next one to look back at.
Summary(l) ==
    IF l.op \in Probes
    THEN [target |-> l.target, pos0 |-> l.pos0, absent |-> l.res.ok /\ ~l.res.some]
    ELSE NoPrev

\* The caller probes the optional fields of a schema in ascending
\* tag-number order.
InOrder(n) == last.op \in Probes => last.target < n

\* The reader after an operation: advanced on success; after an error the
\* parse is aborted and the reader is not used again.
Apply(op, T, target, res) ==
    /\ last' = [op |-> op, T |-> T, target |-> target, pos0 |-> pos, res |-> res]
    /\ prev' = Summary(last)
    /\ pos' = IF res.ok THEN res.pos ELSE pos
    /\ UNCHANGED <<buf, written, raw, phase, cmp, octetVars, loop>>

DecodeExplicit(T, n) ==
    /\ phase = "read"
    /\ last.res.ok
    /\ InOrder(n)
    /\ Apply("decode_explicit", T, n, decode_explicit(T, buf, pos, Len(buf), n))

DecodeImplicit(T, n) ==
    /\ phase = "read"
    /\ last.res.ok
    /\ InOrder(n)
    /\ Apply("decode_implicit", T, n, decode_implicit(T, buf, pos, Len(buf), n))

\* ContextSpecific::<T>::decode on the reader.
Decode(T) ==
    /\ phase = "read"
    /\ last.op = "none"
    /\ Apply("decode", T, 0, ContextSpecific_decode(T, buf, pos, Len(buf)))

\* AnyRef::decode on the reader, then ContextSpecific::<T>::try_from.
TryFrom(T) ==
    /\ phase = "read"
    /\ last.op = "none"
    /\ \E any \in {AnyRef_decode(buf, pos, Len(buf))} :
          \E r \in {IF any.ok THEN ContextSpecific_try_from(T, any.val) ELSE any} :
             Apply("try_from", T, 0, IF r.ok THEN Ok(r.val, any.pos) ELSE r)

\* a.value_cmp(&b) on two values of one ContextSpecific<T>.
ValueCmp(a, b) ==
    /\ phase = "write"
    /\ buf = <<>>
    /\ a.value.T = b.value.T
    /\ phase' = "cmp"
    /\ cmp' = [a |-> a, b |-> b, res |-> ContextSpecific_value_cmp(a, b, MaxStack)]
    /\ UNCHANGED <<buf, written, raw, pos, last, prev, octetVars, loop>>

Next ==
    \/ \E cs \in Values : Encode(cs)
    \/ \E i \in 1..Len(buf), byte \in TamperBytes : Tamper(i, byte)
    \/ Truncate
    \/ NewReader
    \/ \E T \in InnerTypes, n \in TagNumbers : DecodeExplicit(T, n)
    \/ \E T \in InnerTypes, n \in TagNumbers : DecodeImplicit(T, n)
    \/ \E T \in InnerTypes : Decode(T)
    \/ \E T \in InnerTypes : TryFrom(T)
    \/ \E a \in Values, b \in Values : ValueCmp(a, b)

Spec == Init /\ [][Next]_vars

(***************************************************************************)
(* The same reader operations over the encoding of one field whose content *)
(* is up to MaxContentLen bytes long, so that headers in the long length   *)
(* form are written and read.                                              *)
(***************************************************************************)
LongValues ==
    {[tag_number |-> n, tag_mode |-> m, value |-> [T |-> T, bytes |-> c]] :
        n \in TagNumbers, m \in TagModes, T \in InnerTypes,
        c \in Contents \cup {Zeros(l) : l \in ContentLens}}

EncodeOne(cs) ==
    /\ written = <<>>
    /\ Encode(cs)

LongNext ==
    \/ \E cs \in LongValues : EncodeOne(cs)
    \/ NewReader
    \/ \E T \in InnerTypes, n \in TagNumbers : DecodeExplicit(T, n)
    \/ \E T \in InnerTypes, n \in TagNumbers : DecodeImplicit(T, n)
    \/ \E T \in InnerTypes : Decode(T)
    \/ \E T \in InnerTypes : TryFrom(T)

SpecLong == Init /\ [][LongNext]_vars

(***************************************************************************)
(* OCTET STRING values: constructed from byte sequences, decoded from a    *)
(* reader, and converted between the owned and the borrowed form.          *)
(***************************************************************************)
Ramp(n) == [i \in 1..n |-> i]

\* Byte sequences up to one byte longer than a Length can count: of each
\* length, one of equal bytes and one of distinct bytes.
OctetInputs == {Zeros(n) : n \in 0..(Length_MAX + 1)}
                   \cup {Ramp(n) : n \in 0..(Length_MAX + 1)}

\* The lengths a Header can hold.
Lengths == 0..Length_MAX

OctetOp(op, input, length, r, len) ==
    [op |-> op, input |-> input, length |-> length,
     ok |-> r.ok, err |-> r.err, len |-> len]

\* OctetStringRef::new(slice).
BorrowedNew(slice) ==
    \E r \in {OctetStringRef_new(slice)} :
       /\ borrowed' = IF r.ok THEN <<r.val>> ELSE borrowed
       /\ olast' = OctetOp("OctetStringRef::new", slice, 0, r, 0)
       /\ UNCHANGED <<owned, ownedBy, codecVars, loop>>

\* OctetString::new(bytes).
OwnedNew(bytes) ==
    \E r \in {OctetString_new(bytes)} :
       /\ owned' = IF r.ok THEN <<r.val>> ELSE owned
       /\ ownedBy' = IF r.ok THEN "new" ELSE ownedBy
       /\ olast' = OctetOp("OctetString::new", bytes, 0, r, 0)
       /\ UNCHANGED <<borrowed, codecVars, loop>>

\* OctetString::decode_value on a reader over b, under a header of the
\* given length.
OwnedDecodeValue(b, length) ==
    \E r \in {OctetString_decode_value(b, 0, Len(b),
                  [tag |-> Tag_OctetString, length |-> length])} :
       /\ owned' = IF r.ok THEN <<r.val>> ELSE owned
       /\ ownedBy' = IF r.ok THEN "decode_value" ELSE ownedBy
       /\ olast' = OctetOp("decode_value", b, length, r, 0)
       /\ UNCHANGED <<borrowed, codecVars, loop>>

\* octet_string_ref.ref_to_owned().
RefToOwned ==
    /\ borrowed # <<>>
    /\ owned' = <<ref_to_owned(borrowed[1])>>
    /\ ownedBy' = "ref_to_owned"
    /\ olast' = OctetOp("ref_to_owned", <<>>, 0, Valid(<<>>), 0)
    /\ UNCHANGED <<borrowed, codecVars, loop>>

\* OctetStringRef::from(&octet_string).
FromOwned ==
    /\ owned # <<>>
    /\ \E r \in {OctetStringRef_from(owned[1])} :
          /\ borrowed' = IF r.ok THEN <<r.val>> ELSE borrowed
          /\ olast' = OctetOp("from", <<>>, 0, r, 0)
    /\ UNCHANGED <<owned, ownedBy, codecVars, loop>>

\* octet_string.owned_to_ref().
OwnedToRef ==
    /\ owned # <<>>
    /\ \E r \in {owned_to_ref(owned[1])} :
          /\ borrowed' = IF r.ok THEN <<r.val>> ELSE borrowed
          /\ olast' = OctetOp("owned_to_ref", <<>>, 0, r, 0)
    /\ UNCHANGED <<owned, ownedBy, codecVars, loop>>

\* octet_string.len().
OwnedLen ==
    /\ owned # <<>>
    /\ \E r \in {OctetString_len(owned[1])} :
          olast' = OctetOp("len", <<>>, 0, r, IF r.ok THEN r.val ELSE 0)
    /\ UNCHANGED <<owned, ownedBy, borrowed, codecVars, loop>>

OctetNext ==
    \/ \E slice \in OctetInputs : BorrowedNew(slice)
    \/ \E bytes \in OctetInputs : OwnedNew(bytes)
    \/ \E b \in OctetInputs, length \in Lengths : OwnedDecodeValue(b, length)
    \/ RefToOwned
    \/ FromOwned
    \/ OwnedToRef
    \/ OwnedLen

SpecOctet == Init /\ [][OctetNext]_vars

(***************************************************************************)
(* A probe whose loop is run one iteration at a time, over encoded,        *)
(* tampered and cut buffers.                                               *)
(***************************************************************************)
\* A buffer of one or more fields that was cut short by one byte.
CutShort ==
    /\ phase = "write"
    /\ ~raw
    /\ Len(written) > 1
    /\ buf' = SubSeq(buf, 1, Len(buf) - 1)
    /\ raw' = TRUE
    /\ UNCHANGED <<written, phase, pos, last, prev, cmp, octetVars, loop>>

\* decode_explicit / decode_implicit is called on the reader: decode_with
\* is entered.
LoopStart(mode, T, n) ==
    /\ phase = "read"
    /\ last.op = "none"
    /\ loop.state = "idle"
    /\ loop' = [state |-> "running", tag_mode |-> mode, T |-> T, tag_number |-> n,
                start |-> pos, at |-> pos, trail |-> <<>>, iters |-> 0,
                res |-> OkNone(pos)]
    /\ UNCHANGED <<codecVars, octetVars>>

\* One iteration of the loop: it leaves the loop with the result of the
\* probe, or it has skipped one field.
LoopStep ==
    /\ loop.state = "running"
    /\ \E it \in {decode_with_iteration(loop.tag_mode, loop.T, buf, loop.at,
                                        Len(buf), loop.tag_number)} :
          loop' = IF it.exit
                  THEN [loop EXCEPT !.state = "done",
                                    !.iters = @ + (IF it.entered THEN 1 ELSE 0),
                                    !.res = it.res]
                  ELSE [loop EXCEPT !.at = it.pos,
                                    !.trail = Append(@, loop.at),
                                    !.iters = @ + 1]
    /\ UNCHANGED <<codecVars, octetVars>>

LoopNext ==
    \/ \E cs \in Values : Encode(cs)
    \/ \E i \in 1..Len(buf), byte \in TamperBytes : Tamper(i, byte)
    \/ Truncate
    \/ CutShort
    \/ NewReader
    \/ \E mode \in TagModes, T \in InnerTypes, n \in TagNumbers : LoopStart(mode, T, n)
    \/ LoopStep

SpecLoop == Init /\ [][LoopNext]_vars

(***************************************************************************)
(* What the formulas below read off the state.                             *)
(***************************************************************************)
\* The offset in buf at which the k-th written field starts (k = 1 ..
\* Len(written) + 1, the last being the end of an untampered buffer).
RECURSIVE FieldStart(_)
FieldStart(k) ==
    IF k <= 1 THEN 0
    ELSE FieldStart(k - 1) + Len(ContextSpecific_encode(written[k - 1]))

\* The probe `l` asks for the mode and inner type the field v was written with.
Matches(l, v) ==
    /\ l.T = v.value.T
    /\ \/ l.op = "decode_explicit" /\ v.tag_mode = "Explicit"
       \/ l.op = "decode_implicit" /\ v.tag_mode = "Implicit"

Probed == phase = "read" /\ last.op \in Probes

\* The byte at offset p of buf is a context-specific tag octet.
CtxByteAt(p) == p < Len(buf) /\ buf[p + 1] \div 64 = 2 /\ buf[p + 1] % 32 # 31

NumberAt(p) == buf[p + 1] % 32

ConstructedAt(p) == (buf[p + 1] \div 32) % 2 = 1

\* C1: on a buffer of well-formed context-specific fields in ascending
\* tag-number order, a probe for n that starts at field k discards every
\* field numbered below n; if the next field j is numbered n (and is of the
\* probed mode and type) the probe returns Some(field j) and the reader is
\* past field j; if there is no next field or it is numbered above n the
\* probe returns None and the reader is at the end of the discarded fields.
C1_SkipLowerThenMatch ==
    (Probed /\ ~raw) =>
        \A k \in 1..Len(written) : \A j \in k..(Len(written) + 1) :
            ( /\ FieldStart(k) = last.pos0
              /\ \A i \in k..(j - 1) : written[i].tag_number < last.target )
            =>
            /\ ( /\ j <= Len(written)
                 /\ written[j].tag_number = last.target
                 /\ Matches(last, written[j]) )
               => ( /\ last.res = Ok(written[j], FieldStart(j + 1))
                    /\ pos = FieldStart(j + 1) )
            /\ ( j > Len(written) \/ written[j].tag_number > last.target )
               => ( /\ last.res = OkNone(FieldStart(j))
                    /\ pos = FieldStart(j) )

\* A probe for field 2 of a two-field buffer skipped field 1 and returned
\* field 2.
C1_Witness ==
    /\ Probed /\ ~raw
    /\ Len(written) = 2
    /\ last.pos0 = 0
    /\ written[1].tag_number < last.target
    /\ written[2].tag_number = last.target
    /\ last.res.some
    /\ last.res.val = written[2]
    /\ pos = Len(buf)

\* C2: a probe for n that meets a context-specific field numbered above n
\* returns None and leaves the reader where it was; and when the next
\* probe, from that position, asks for the number (mode and type) of the
\* well-formed field there, it returns that field.
C2_GreaterNotConsumed ==
    Probed =>
        /\ ( CtxByteAt(last.pos0) /\ NumberAt(last.pos0) > last.target )
           => ( last.res = OkNone(last.pos0) /\ pos = last.pos0 )
        /\ ( ~raw /\ prev.absent /\ prev.pos0 = last.pos0 )
           => \A k \in 1..Len(written) :
                ( /\ FieldStart(k) = last.pos0
                  /\ written[k].tag_number > prev.target
                  /\ written[k].tag_number = last.target
                  /\ Matches(last, written[k]) )
                => ( /\ last.res = Ok(written[k], FieldStart(k + 1))
                     /\ pos = FieldStart(k + 1) )

\* A probe returned None at a higher-numbered field, and the following
\* probe for that number returned the field.
C2_Witness ==
    /\ Probed /\ ~raw
    /\ prev.absent /\ prev.pos0 = last.pos0
    /\ CtxByteAt(last.pos0)
    /\ NumberAt(last.pos0) > prev.target
    /\ NumberAt(last.pos0) = last.target
    /\ last.res.some
    /\ pos > last.pos0

\* C3: a probe at the end of the input (the empty buffer included), or at a
\* tag that is not context-specific, returns None, not an error, and
\* consumes nothing.
C3_AbsentNotError ==
    Probed =>
        /\ last.pos0 = Len(buf)
           => ( last.res = OkNone(last.pos0) /\ pos = last.pos0 )
        /\ ( /\ last.pos0 < Len(buf)
             /\ Tag_decode(buf[last.pos0 + 1]).ok
             /\ buf[last.pos0 + 1] \div 64 # 2 )
           => ( last.res = OkNone(last.pos0) /\ pos = last.pos0 )

\* A probe met a universal tag and returned None without consuming it.
C3_Witness ==
    /\ Probed
    /\ last.pos0 < Len(buf)
    /\ buf[last.pos0 + 1] \in {4, 48}
    /\ last.res.ok /\ ~last.res.some
    /\ pos = last.pos0

\* A probe of the empty buffer returned None.
C3_WitnessEmpty == Probed /\ buf = <<>> /\ last.res = OkNone(0)

\* The one written field, re-tagged with the mode m.
InMode(m) == [written[1] EXCEPT !.tag_mode = m]

InnerHeaderLen == Header_encoded_len(T_value_len(written[1].value))

\* C4 as claimed: ContextSpecific::decode of the encoding of any value v,
\* of either tag mode, yields v, and the encoding is header size plus
\* v.value_len() bytes long.
C4_RoundTripAnyMode ==
    (phase = "read" /\ ~raw /\ Len(written) = 1) =>
        LET v == written[1]
        IN  /\ Len(buf) = Header_encoded_len(ContextSpecific_value_len(v))
                              + ContextSpecific_value_len(v)
            /\ (last.op = "decode" /\ last.T = v.value.T)
               => last.res = Ok(v, Len(buf))

\* C4 as amended: the round trip holds through the decode of the value's
\* own mode: ContextSpecific::decode returns v for an Explicit v, and
\* decode_implicit with target v.tag_number returns Some(v) for an Implicit
\* v; in both modes the encoding is header size plus v.value_len() bytes.
C4_RoundTripByMode ==
    (~raw /\ Len(written) = 1) =>
        LET v == written[1]
        IN  /\ Len(buf) = Header_encoded_len(ContextSpecific_value_len(v))
                              + ContextSpecific_value_len(v)
            /\ (phase = "read" /\ last.T = v.value.T /\ last.pos0 = 0) =>
                /\ (last.op = "decode" /\ v.tag_mode = "Explicit")
                   => (last.res = Ok(v, Len(buf)) /\ pos = Len(buf))
                /\ ( /\ last.op = "decode_implicit"
                     /\ v.tag_mode = "Implicit"
                     /\ last.target = v.tag_number )
                   => (last.res = Ok(v, Len(buf)) /\ pos = Len(buf))

\* An Implicit value whose length takes the long form was decoded back.
C4_Witness ==
    /\ phase = "read" /\ ~raw /\ Len(written) = 1
    /\ written[1].tag_mode = "Implicit"
    /\ Len(written[1].value.bytes) >= 128
    /\ last.op = "decode_implicit"
    /\ last.res.some
    /\ last.res.val = written[1]

\* An Explicit value was decoded back by ContextSpecific::decode.
C4_WitnessExplicit ==
    /\ phase = "read" /\ ~raw /\ Len(written) = 1
    /\ written[1].tag_mode = "Explicit"
    /\ last.op = "decode"
    /\ last.res.some
    /\ last.res.val = written[1]

\* What decode_explicit and decode_implicit return for the one written
\* field when asked for its number, mode and inner type.
DecodesBackInner ==
    ( /\ phase = "read" /\ Probed /\ last.pos0 = 0
      /\ Matches(last, written[1])
      /\ last.target = written[1].tag_number )
    => (last.res.some /\ last.res.val.value = written[1].value)

\* C5 as claimed: the Explicit encoding of an inner value is longer than
\* the Implicit one by exactly the size of the inner value's header, and
\* each decodes back to the inner value.
C5_LongerByInnerHeader ==
    (~raw /\ Len(written) = 1) =>
        /\ Len(ContextSpecific_encode(InMode("Explicit")))
             = Len(ContextSpecific_encode(InMode("Implicit"))) + InnerHeaderLen
        /\ DecodesBackInner

\* C5 as amended: value_len in Explicit mode is value_len in Implicit mode
\* plus the size of the inner value's header; the Explicit encoding is
\* strictly longer than the Implicit one, by the inner header plus the
\* octets by which the outer header's length field grows; each decodes
\* back to the inner value.
C5_LongerByInnerHeaderAndLength ==
    (~raw /\ Len(written) = 1) =>
        LET e == InMode("Explicit")
            i == InMode("Implicit")
        IN  /\ ContextSpecific_value_len(e) = T_encoded_len(e.value)
            /\ ContextSpecific_value_len(i) = T_value_len(i.value)
            /\ ContextSpecific_value_len(e)
                 = ContextSpecific_value_len(i) + InnerHeaderLen
            /\ Len(ContextSpecific_encode(e))
                 = Len(ContextSpecific_encode(i)) + InnerHeaderLen
                     + Header_encoded_len(ContextSpecific_value_len(e))
                     - Header_encoded_len(ContextSpecific_value_len(i))
            /\ Len(ContextSpecific_encode(e)) > Len(ContextSpecific_encode(i))
            /\ Len(buf) = Len(ContextSpecific_encode(written[1]))
            /\ DecodesBackInner

\* An Explicit field whose outer length takes the long form while the
\* Implicit one would not, decoded back by decode_explicit.
C5_Witness ==
    /\ phase = "read" /\ ~raw /\ Len(written) = 1
    /\ written[1].tag_mode = "Explicit"
    /\ Len(written[1].value.bytes) = 126
    /\ last.op = "decode_explicit"
    /\ last.res.some
    /\ last.res.val.value = written[1].value

\* The reader stands at a context-specific tag with the probed number.
DirectMatch == CtxByteAt(last.pos0) /\ NumberAt(last.pos0) = last.target

\* C6: decode_implicit returns a field only when the constructed flag of
\* the field's outer header equals that of the inner type's tag, and the
\* field then has tag_mode Implicit and the probed tag_number; when the
\* flags differ on a complete unit the result is the non-canonical error.
C6_ImplicitFlagsAgree ==
    (phase = "read" /\ last.op = "decode_implicit") =>
        /\ last.res.some =>
            LET n == Len(last.res.val.value.bytes)
                start == last.res.pos - n - Header_encoded_len(n)
            IN  /\ last.res.val.tag_mode = "Implicit"
                /\ last.res.val.tag_number = last.target
                /\ start >= last.pos0
                /\ CtxByteAt(start)
                /\ NumberAt(start) = last.target
                /\ ConstructedAt(start) = is_constructed(T_TAG(last.T))
        /\ ( /\ DirectMatch
             /\ AnyRef_decode(buf, last.pos0, Len(buf)).ok
             /\ ConstructedAt(last.pos0) # is_constructed(T_TAG(last.T)) )
           => last.res = Err("Noncanonical")

\* decode_implicit met a complete field with the other constructed flag.
C6_Witness ==
    /\ phase = "read" /\ last.op = "decode_implicit"
    /\ DirectMatch
    /\ AnyRef_decode(buf, last.pos0, Len(buf)).ok
    /\ ConstructedAt(last.pos0) # is_constructed(T_TAG(last.T))
    /\ last.res.err = "Noncanonical"

\* decode_implicit returned a field whose flags agree.
C6_WitnessSome ==
    /\ phase = "read" /\ last.op = "decode_implicit"
    /\ last.res.some
    /\ raw

FieldOps == {"decode", "decode_explicit", "decode_implicit"}

ExplicitOps == {"decode", "decode_explicit"}

\* The operation decodes the field that starts where the reader stood.
DecodesAtStart == last.op = "decode" \/ (last.op \in Probes /\ DirectMatch)

\* C7: a field is returned only when the inner decode consumed exactly the
\* outer header's Length: a field whose Length exceeds the bytes left
\* (truncated), or whose inner unit ends before or after the outer Length
\* (padded), is an error, never a value.
C7_NestedBoundExact ==
    (phase = "read" /\ last.op \in FieldOps /\ DecodesAtStart) =>
        LET h == Header_decode(buf, last.pos0, Len(buf))
            end == h.pos + h.val.length
            ih == Header_decode(buf, h.pos, Len(buf))
        IN  h.ok =>
            /\ end > Len(buf) => ~last.res.ok
            /\ ( /\ last.op \in ExplicitOps
                 /\ ih.ok
                 /\ ih.pos + ih.val.length # end )
               => ~last.res.ok
            /\ last.res.some =>
                /\ last.res.pos = end
                /\ pos = end
                /\ end <= Len(buf)
                /\ last.op \in ExplicitOps =>
                     T_encoded_len(last.res.val.value) = h.val.length
                /\ last.op = "decode_implicit" =>
                     T_value_len(last.res.val.value) = h.val.length

\* An Explicit decode met an inner unit shorter than the outer Length.
C7_Witness ==
    /\ phase = "read" /\ last.op \in ExplicitOps /\ DecodesAtStart
    /\ LET h == Header_decode(buf, last.pos0, Len(buf))
           ih == Header_decode(buf, h.pos, Len(buf))
       IN  /\ h.ok /\ ih.ok
           /\ h.pos + h.val.length <= Len(buf)
           /\ ih.pos + ih.val.length < h.pos + h.val.length
    /\ last.res.err = "TrailingData"

\* An Implicit decode met an outer Length larger than the bytes left.
C7_WitnessTruncated ==
    /\ phase = "read" /\ last.op = "decode_implicit" /\ DirectMatch
    /\ LET h == Header_decode(buf, last.pos0, Len(buf))
       IN  h.ok /\ h.pos + h.val.length > Len(buf)
    /\ last.res.err = "TruncatedInput"

\* The outer tag at the reader is context-specific and constructed.
ExplicitHeaderAt(p) == CtxByteAt(p) /\ ConstructedAt(p)

\* On success the field has the header's number and mode Explicit.
ExplicitResult ==
    last.res.some =>
        /\ last.res.val.tag_mode = "Explicit"
        /\ last.op \in {"decode", "try_from"}
           => last.res.val.tag_number = NumberAt(last.pos0)
        /\ last.op = "decode_explicit"
           => last.res.val.tag_number = last.target

\* C8 as claimed: for every outer tag that is not context-specific and
\* constructed, ContextSpecific::decode, decode_explicit and
\* TryFrom<AnyRef> return the unexpected-tag error.
C8_OtherTagIsError ==
    (phase = "read" /\ last.op \in {"decode", "decode_explicit", "try_from"}) =>
        /\ ( /\ Header_decode(buf, last.pos0, Len(buf)).ok
             /\ last.op = "try_from" => AnyRef_decode(buf, last.pos0, Len(buf)).ok
             /\ ~ExplicitHeaderAt(last.pos0) )
           => last.res = Err("UnexpectedTag")
        /\ ExplicitResult

\* C8 as amended: ContextSpecific::decode and TryFrom<AnyRef> return the
\* unexpected-tag error for every outer tag that is not context-specific
\* and constructed; decode_explicit returns it when the tag is a primitive
\* context-specific tag with the probed number (any other tag is skipped
\* or reported as None).  On success the field has the header's number and
\* mode Explicit.
C8_OtherTagIsErrorWhenMatched ==
    (phase = "read" /\ last.op \in {"decode", "decode_explicit", "try_from"}) =>
        /\ ( /\ Header_decode(buf, last.pos0, Len(buf)).ok
             /\ last.op = "try_from" => AnyRef_decode(buf, last.pos0, Len(buf)).ok
             /\ last.op = "decode_explicit" => DirectMatch
             /\ ~ExplicitHeaderAt(last.pos0) )
           => last.res = Err("UnexpectedTag")
        /\ ExplicitResult

\* decode_explicit met a primitive context-specific tag with its number.
C8_Witness ==
    /\ phase = "read" /\ last.op = "decode_explicit"
    /\ DirectMatch
    /\ ~ConstructedAt(last.pos0)
    /\ Header_decode(buf, last.pos0, Len(buf)).ok
    /\ last.res = Err("UnexpectedTag")

\* TryFrom<AnyRef> was handed a unit with a universal tag.
C8_WitnessTryFrom ==
    /\ phase = "read" /\ last.op = "try_from"
    /\ AnyRef_decode(buf, last.pos0, Len(buf)).ok
    /\ ~CtxByteAt(last.pos0)
    /\ last.res = Err("UnexpectedTag")

\* C9: value_cmp of two Implicit-mode values returns what the inner
\* values' own value_cmp returns.
C9_ImplicitCmpIsInnerCmp ==
    (phase = "cmp" /\ cmp.a.tag_mode = "Implicit" /\ cmp.b.tag_mode = "Implicit")
    => cmp.res = T_value_cmp(cmp.a.value, cmp.b.value)

\* x sorts strictly before y by value_cmp.
Before(x, y) == ContextSpecific_value_cmp(x, y, MaxStack) = "Less"

Comparable(x) == {y \in Values : y.value.T = x.value.T}

\* C10: value_cmp is a strict total order on the values of one
\* ContextSpecific<T>: of two distinct values exactly one is before the
\* other, no value is before itself, before is transitive; and for
\* Explicit-mode values it is the order of the encodings, byte for byte.
C10_StrictTotalOrder ==
    phase = "cmp" =>
        LET a == cmp.a
            b == cmp.b
        IN  /\ a # b => (Before(a, b) # Before(b, a))
            /\ ~Before(a, a)
            /\ \A c \in Comparable(a) :
                 (Before(a, b) /\ Before(b, c)) => Before(a, c)
            /\ (a.tag_mode = "Explicit" /\ b.tag_mode = "Explicit")
               => cmp.res = BytesCmp(ContextSpecific_encode(a),
                                     ContextSpecific_encode(b))

\* C11: every OctetString held, whichever operation constructed it (new,
\* decode_value or ref_to_owned), has a byte count that fits a Length; so
\* the conversions to the borrowed form (From, owned_to_ref) and len never
\* panic, the borrowed value views the same bytes and len is their count;
\* and OctetString::new rejects, with the OCTET STRING length error,
\* exactly the inputs OctetStringRef::new rejects.
C11_OwnedAlwaysConvertible ==
    /\ owned # <<>> => Len(OctetString_as_bytes(owned[1])) <= Length_MAX
    /\ olast.op \in {"from", "owned_to_ref"} =>
          /\ olast.ok
          /\ borrowed # <<>>
          /\ OctetStringRef_as_bytes(borrowed[1]) = OctetString_as_bytes(owned[1])
    /\ olast.op = "len" =>
          /\ olast.ok
          /\ olast.len = Len(OctetString_as_bytes(owned[1]))
    /\ olast.op = "OctetString::new" =>
          /\ olast.ok <=> OctetStringRef_new(olast.input).ok
          /\ olast.ok <=> Len(olast.input) <= Length_MAX
          /\ olast.ok => owned = <<[inner |-> olast.input]>>
          /\ ~olast.ok => olast.err = "Length" /\ OctetStringRef_new(olast.input).err = "Length"

\* An OctetString of the largest length, made by ref_to_owned, converted
\* back to the borrowed form.
C11_Witness ==
    /\ olast.op = "owned_to_ref"
    /\ ownedBy = "ref_to_owned"
    /\ Len(owned[1].inner) = Length_MAX
    /\ borrowed[1].inner.inner = owned[1].inner

\* len of a decoded OctetString; From of a constructed one; a rejection.
C11_WitnessDecoded ==
    olast.op = "len" /\ ownedBy = "decode_value" /\ olast.len = Length_MAX

C11_WitnessFrom ==
    olast.op = "from" /\ ownedBy = "new" /\ Len(owned[1].inner) = Length_MAX

C11_WitnessRejected ==
    olast.op = "OctetString::new" /\ ~olast.ok /\ Len(olast.input) = Length_MAX + 1

(***************************************************************************)
(* What the formulas on the loop of decode_with read off the state.        *)
(***************************************************************************)
LoopDone == loop.state = "done"

\* The tag octet at offset p of buf, decoded.
TagAt(p) == Tag_decode(buf[p + 1])

\* At offset p of buf stands a context-specific tag numbered below the
\* target of the probe: the loop body skips the unit that starts there.
SkippableAt(p) == CtxByteAt(p) /\ NumberAt(p) < loop.tag_number

\* At offset p of buf stands the context-specific tag the probe looks for.
MatchedAt(p) == CtxByteAt(p) /\ NumberAt(p) = loop.tag_number

\* The unit that starts at offset p of buf, decoded generically.
UnitAt(p) == AnyRef_decode(buf, p, Len(buf))

\* The offset at which the iteration after the i-th skipping one began.
AfterSkip(i) == IF i < Len(loop.trail) THEN loop.trail[i + 1] ELSE loop.at

\* C12: when the loop of a probe is left, (a) every unit it passed over was
\* a lower-numbered context-specific field that decoded generically without
\* error; (b) if the tag where it stopped cannot be decoded, the result is
\* that error; (c) if it stopped at a lower-numbered field, the generic
\* decode of that field failed and the result is that error; (d) if it
\* stopped at the field numbered n, the result is the result of the
\* mode-specific decode, an error whenever the unit is malformed or
\* truncated; (e) None is the result only at the end of the input, at a tag
\* that is not context-specific, or at a higher-numbered tag, with the
\* reader there; (f) a value returned is the whole field: it re-encodes to
\* exactly the bytes consumed.  The result is that of decode_with.
C12_AbsenceHidesNoError ==
    LoopDone =>
       /\ loop.res = decode_with(loop.tag_mode, loop.T, buf, loop.start,
                                 Len(buf), loop.tag_number)
       /\ \A i \in 1..Len(loop.trail) :
             SkippableAt(loop.trail[i]) /\ UnitAt(loop.trail[i]).ok
       /\ (loop.at < Len(buf) /\ ~TagAt(loop.at).ok) =>
             ~loop.res.ok /\ loop.res = TagAt(loop.at)
       /\ SkippableAt(loop.at) =>
             ~loop.res.ok /\ loop.res = UnitAt(loop.at)
       /\ MatchedAt(loop.at) =>
             /\ loop.res = decode_field(loop.tag_mode, loop.T, buf, loop.at,
                                        Len(buf), loop.tag_number)
             /\ ~UnitAt(loop.at).ok => ~loop.res.ok
             /\ loop.res.ok => loop.res.some
       /\ (loop.res.ok /\ ~loop.res.some) =>
             /\ loop.res.pos = loop.at
             /\ \/ loop.at = Len(buf)
                \/ /\ loop.at < Len(buf)
                   /\ TagAt(loop.at).ok
                   /\ ~CtxByteAt(loop.at) \/ NumberAt(loop.at) > loop.tag_number
       /\ loop.res.some =>
             /\ MatchedAt(loop.at)
             /\ loop.res.val.tag_number = loop.tag_number
             /\ loop.res.val.tag_mode = loop.tag_mode
             /\ ContextSpecific_encode(loop.res.val)
                    = SubSeq(buf, loop.at + 1, loop.res.pos)

\* A probe that skipped a field and then failed to skip the next one.
C12_Witness ==
    /\ LoopDone
    /\ loop.trail # <<>>
    /\ SkippableAt(loop.at)
    /\ ~loop.res.ok

\* A probe that skipped a field and then failed to peek the next tag.
C12_WitnessPeek ==
    /\ LoopDone
    /\ loop.trail # <<>>
    /\ loop.at < Len(buf)
    /\ ~TagAt(loop.at).ok
    /\ loop.res.err = "MalformedTag"

\* A probe that skipped a field and failed to decode the matched one.
C12_WitnessMatched ==
    /\ LoopDone
    /\ loop.trail # <<>>
    /\ MatchedAt(loop.at)
    /\ ~loop.res.ok

\* None at a tag that is not context-specific, after a skip, on a buffer
\* the encoder did not write.
C12_WitnessNone ==
    /\ LoopDone
    /\ raw
    /\ loop.trail # <<>>
    /\ loop.res.ok /\ ~loop.res.some
    /\ loop.at < Len(buf)
    /\ ~CtxByteAt(loop.at)

\* C13: while a probe runs and when it is done, the reader never stands
\* before the offset the probe began at nor past the end of the buffer;
\* every iteration that did not leave the loop left the reader exactly one
\* whole unit further, so the offsets at which the iterations began
\* increase strictly; and the loop body was entered at most as often as
\* there were bytes left when the probe began.
C13_LoopAdvancesAndIsBounded ==
    loop.state \in {"running", "done"} =>
       /\ loop.start <= loop.at
       /\ loop.at <= Len(buf)
       /\ \A i \in 1..Len(loop.trail) :
             /\ loop.start <= loop.trail[i]
             /\ UnitAt(loop.trail[i]).ok
             /\ UnitAt(loop.trail[i]).pos = AfterSkip(i)
             /\ loop.trail[i] < AfterSkip(i)
       /\ Len(loop.trail) <= loop.iters
       /\ loop.iters <= Len(loop.trail) + 1
       /\ loop.iters <= Len(buf) - loop.start
       /\ loop.state = "running" => loop.iters = Len(loop.trail)

\* A probe that is done after two skipping iterations.
C13_Witness ==
    /\ LoopDone
    /\ Len(loop.trail) = 2
    /\ loop.iters = 2
    /\ loop.at = Len(buf)

====
